---- MODULE Spec2Model ----
(***************************************************************************)
(* State-machine model of the DragDrop acquirer plugin                     *)
(* (src/unnamed/part_000): the drag state machine with its debounce timer, *)
(* the picker channel, the asynchronous drop channel and the batch         *)
(* submitter, together with the collaborators the plugin talks to (the     *)
(* orchestrator "uppy", the timer queue of the event loop, the hidden file *)
(* input).  Every handler of the class is one action; the asynchronous     *)
(* handleDrop is split at its single await.                                *)
(*                                                                         *)
(* The module also models the React wrapper component Dashboard            *)
(* (src/packages/@uppy/react/src/Dashboard.js): its lifecycle methods      *)
(* install its plugin on, and remove it from, the Uppy instance of its     *)
(* props.  The two programs do not interact: Spec runs the DragDrop plugin *)
(* with the wrapper left as constructed, DashSpec runs the wrapper with    *)
(* the DragDrop plugin left as constructed.                                *)
(***************************************************************************)
EXTENDS Naturals, Sequences, FiniteSets

(* ------------------------------ bounds --------------------------------- *)

\* Number of events in a run: drag-over, drag-leave, drop and change
\* notifications of the platform, and changes of the orchestrator's flag.
MaxEvents == 3

\* Longest file list an event carries, and the number of entries all drop
\* payloads of a run hold together.
MaxEntries == 2

\* Number of drops in a run.
MaxDrops == 2

\* Number of Uppy instances the host can pass to the Dashboard wrapper.
NumUppy == 2

\* Number of componentDidUpdate calls in a run of the wrapper.
MaxUpdates == 3

(* ------------------------------ values --------------------------------- *)

\* A property that is absent on a JavaScript object reads as undefined.
Undefined == "<undefined>"

\* The JavaScript null value.
Null == "<null>"

\* this.id = opts.id || 'DragDrop'
PluginId == "DragDrop"

\* File handles the platform can deliver.  relativePath is attached by the
\* directory traversal of a drop; a plain File object has none.
FileA == [name |-> "a.txt", type |-> "text/plain", relativePath |-> Undefined]
FileB == [name |-> "b.pdf", type |-> "application/pdf", relativePath |-> "docs/b.pdf"]
FileC == [name |-> "c", type |-> "", relativePath |-> ""]
FileD == [name |-> "d.png", type |-> "image/png", relativePath |-> Undefined]
FileE == [name |-> "e.csv", type |-> "text/csv", relativePath |-> Undefined]

\* The values the handlers give dataTransfer.dropEffect.
DropEffects == {"none", "copy"}

\* dataTransfer.types of a drag: the formats the payload advertises.  The
\* handlers are modelled for every event they can be called with: the
\* manifest and the entries of a drop are separate inputs, and handleDrop
\* reads only the entries.  A drop event arrives with the dropEffect that
\* the latest drag-over chose.
TypeManifests == {{"text/plain"}, {"text/plain", "Files"}}

\* The sequences over S of length at most n.
RECURSIVE ListsUpTo(_, _)
ListsUpTo(S, n) ==
  IF n = 0 THEN {<< >>}
  ELSE LET shorter == ListsUpTo(S, n - 1)
       IN  shorter \cup
           {Append(l, x) : l \in {m \in shorter : Len(m) = n - 1},
                           x \in S}

\* The files the user can pick, in the order the platform lists them.
PickableFiles == <<FileD, FileA, FileE>>

\* event.target.files of a change notification: nothing, or the first files
\* of the list.
Selections ==
  {SubSeq(PickableFiles, 1, n) :
     n \in {m \in 0..MaxEntries : m <= Len(PickableFiles)}}

\* The files behind the entries of a drop payload, in payload order: a plain
\* file, then files that arrive with a relativePath (an empty and a
\* non-empty one), then another plain file.
DropFiles == <<FileA, FileC, FileB, FileD>>

\* A drop payload: for each entry, whether the traversal will resolve it to
\* its file (TRUE) or fail on it (FALSE).
Payloads == {l \in ListsUpTo(BOOLEAN, MaxEntries) : Len(l) <= Len(DropFiles)}

(* ------------------------------ state ---------------------------------- *)

VARIABLES
  lifecycle,                  \* "constructed", "installed", "uninstalled"
  mounted,                    \* the button is in the DOM and receives events
  opts,                       \* which options the host supplied
  allowNewUpload,             \* uppy.getState().allowNewUpload
  isDraggingOver,             \* getPluginState().isDraggingOver
  removeDragOverClassTimeout, \* the field: 0 is null, else a timer id
  timers,                     \* timer ids scheduled and neither fired nor cleared
  dropEffect,                 \* dataTransfer.dropEffect as the handlers of the
                              \* drag-over and drop events left it
  inputFiles,                 \* selection held by the hidden file input
  inflight,                   \* drops suspended at the await of handleDrop
  uppyFiles,                  \* number of files the orchestrator holds
  last,                       \* what the handler run of the latest step did
  nEvents,                    \* events dispatched so far
  nDrops,                     \* drop events among them
  nEntries                    \* entries their payloads held

\* The Dashboard wrapper component and the Uppy instances of its host.
VARIABLES
  phase,                      \* "constructed", "mounted", "unmounted"
  props,                      \* this.props
  plugin,                     \* this.plugin: 0 is undefined, else the object
  plugins,                    \* the plugins each Uppy instance holds
  pluginOptions,              \* the options of the plugin object
  created,                    \* plugin objects created so far
  ranLifecycle,               \* what the latest lifecycle method did
  nUpdates                    \* componentDidUpdate calls so far

dragDropVars == <<lifecycle, mounted, opts, allowNewUpload, isDraggingOver,
                  removeDragOverClassTimeout, timers, dropEffect, inputFiles,
                  inflight, uppyFiles, last, nEvents, nDrops, nEntries>>

wrapperVars == <<phase, props, plugin, plugins, pluginOptions, created,
                 ranLifecycle, nUpdates>>

vars == <<dragDropVars, wrapperVars>>

\* Option sets of the host: the mount target and the three observers.
OptionSets ==
  {[target |-> t, onDragOver |-> o, onDragLeave |-> o, onDrop |-> o] :
     t \in BOOLEAN, o \in BOOLEAN}

\* A drop from its event to the end of its continuation: what the event
\* carried and what the orchestrator allowed then, how far the traversal is,
\* the files resolved and the failures given to logDropError so far, and
\* what handleDrop had done to the hover state and the debounce timer when it
\* started the traversal.
NoDrop ==
  [hasFiles |-> FALSE, allowed |-> FALSE, entries |-> << >>, pos |-> 0,
   files |-> << >>, errs |-> 0, hoverAtTraversal |-> FALSE,
   timerAtTraversal |-> FALSE]

\* What the latest step did.  op names the handler (or the collaborator)
\* that ran; hoverBefore and storeBefore are isDraggingOver and the
\* orchestrator's file count when it started, timerBefore whether the timer
\* of the field was pending then.  hasFiles and selection are
\* what its event carried.  cancelled: its clearTimeout removed a pending
\* timer.  threw: it ended by throwing.  observer: it called the observer of
\* its event.  adds, batch, accepted: its calls of uppy.addFiles, the batch
\* passed and whether the orchestrator accepted it.  infoLogs and
\* rejectionLogs: its calls of uppy.log with a message and with a caught
\* rejection.  drop: for the continuation of handleDrop, the drop it ends.
Ran(op, threw, observer) ==
  [op |-> op, hoverBefore |-> isDraggingOver, storeBefore |-> uppyFiles,
   timerBefore |-> removeDragOverClassTimeout \in timers,
   hasFiles |-> FALSE, selection |-> << >>, cancelled |-> FALSE,
   threw |-> threw, observer |-> observer, adds |-> 0, batch |-> << >>,
   accepted |-> FALSE, infoLogs |-> 0, rejectionLogs |-> 0, drop |-> NoDrop]

(* ------------------------ the wrapper's values ------------------------- *)

\* The Uppy instances of the host.
Uppies == 1..NumUppy

\* The props the host can render the wrapper with: the Uppy instance, an id
\* for the plugin (absent, or given), an option of the plugin, an attribute
\* of the container element.
PropSets ==
  [uppy : Uppies, id : {Undefined, "uploader"}, theme : {"light", "dark"},
   className : {"wide", "narrow"}]

\* What a lifecycle method did.  removedFrom and installedOn: the Uppy
\* instance it called removePlugin and use on (0: none).  holdersBetween:
\* the instances that held a plugin between the two calls.  setOptions: it
\* called this.plugin.setOptions.  threw: it ended by throwing.
Lifecycle(op) ==
  [op |-> op, removedFrom |-> 0, installedOn |-> 0, holdersBetween |-> 0,
   setOptions |-> FALSE, threw |-> FALSE]

\* The wrapper after React constructed it with props p, the Uppy instances
\* holding no plugin.
WrapperConstructed(p) ==
  /\ phase = "constructed"
  /\ props = p
  /\ plugin = 0
  /\ plugins = [u \in Uppies |-> {}]
  /\ pluginOptions = Null
  /\ created = 0
  /\ ranLifecycle = Lifecycle("constructor")
  /\ nUpdates = 0

\* Props of a wrapper that is never mounted.
UnmountedProps ==
  [uppy |-> 1, id |-> Undefined, theme |-> "light", className |-> "wide"]

\* The DragDrop plugin after its constructor.
DragDropConstructed ==
  /\ lifecycle = "constructed"
  /\ mounted = FALSE
  /\ opts \in OptionSets
  /\ allowNewUpload = TRUE
  /\ isDraggingOver = FALSE
  /\ removeDragOverClassTimeout = 0
  /\ timers = {}
  /\ dropEffect = "none"
  /\ inputFiles = << >>
  /\ inflight = << >>
  /\ uppyFiles = 0
  /\ nDrops = 0
  /\ nEntries = 0
  /\ last = Ran("constructor", FALSE, FALSE)
  /\ nEvents = 0

Init == DragDropConstructed /\ WrapperConstructed(UnmountedProps)

(* --------------------------- timer queue ------------------------------- *)

\* clearTimeout(id): a pending timer with that id is removed; null, a fired
\* or an already cleared id is ignored.
ClearTimeout(ts, id) == ts \ {id}

\* setTimeout returns an id that no pending timer has and that differs from
\* the one the field still holds.
FreshTimer(ts, held) ==
  CHOOSE id \in 1..(Cardinality(ts) + 2) : id \notin ts /\ id # held

(* --------------------------- lifecycle --------------------------------- *)

Install ==
  /\ lifecycle = "constructed"
  /\ lifecycle' = "installed"
  /\ isDraggingOver' = FALSE
  /\ mounted' = opts.target
  /\ last' = Ran("install", FALSE, FALSE)
  /\ UNCHANGED <<opts, allowNewUpload, removeDragOverClassTimeout, timers,
                 dropEffect, inputFiles, inflight, uppyFiles,
                 nEvents, nDrops, nEntries>>
  /\ UNCHANGED wrapperVars

\* The timers uninstall() leaves pending.
TimersAfterUninstall == timers

Uninstall ==
  /\ lifecycle = "installed"
  /\ lifecycle' = "uninstalled"
  /\ mounted' = FALSE
  /\ timers' = TimersAfterUninstall
  /\ last' = Ran("uninstall", FALSE, FALSE)
  /\ UNCHANGED <<opts, allowNewUpload, isDraggingOver,
                 removeDragOverClassTimeout, dropEffect, inputFiles, inflight,
                 uppyFiles, nEvents, nDrops, nEntries>>
  /\ UNCHANGED wrapperVars

\* The orchestrator changes its allowNewUpload flag.
SetAllowNewUpload ==
  /\ lifecycle = "installed"
  /\ nEvents < MaxEvents
  /\ nEvents' = nEvents + 1
  /\ allowNewUpload' = ~allowNewUpload
  /\ last' = Ran("uppy.setState", FALSE, FALSE)
  /\ UNCHANGED <<lifecycle, mounted, opts, isDraggingOver,
                 removeDragOverClassTimeout, timers, dropEffect, inputFiles,
                 inflight, uppyFiles, nDrops, nEntries>>
  /\ UNCHANGED wrapperVars

(* ------------------------- drag state machine -------------------------- *)

\* types.some((type) => type === 'Files')
HasFiles(types) == \E t \in types : t = "Files"

\* A drag-over that does not cancel the pending timer.
TimersAfterDragOver_NotCleared == timers

\* The timers left pending by a drag-over.
TimersAfterDragOver == ClearTimeout(timers, removeDragOverClassTimeout)

\* A drag-over that asks the platform for a move.
DropEffectOnAccept_Move == "move"

\* event.dataTransfer.dropEffect = 'copy'
DropEffectOnAccept == "copy"

\* event.dataTransfer.dropEffect = 'none'
DropEffectOnReject == "none"

HandleDragOver(types) ==
  LET start == [Ran("handleDragOver", FALSE, FALSE)
                  EXCEPT !.hasFiles = HasFiles(types),
                         !.cancelled = removeDragOverClassTimeout \in timers]
  IN  /\ mounted
      /\ nEvents < MaxEvents
      /\ nEvents' = nEvents + 1
      /\ IF ~HasFiles(types) \/ ~allowNewUpload
         THEN /\ dropEffect' = DropEffectOnReject
              /\ timers' = TimersAfterDragOver
              /\ last' = start
              /\ UNCHANGED isDraggingOver
         ELSE /\ dropEffect' = DropEffectOnAccept
              /\ timers' = TimersAfterDragOver
              /\ isDraggingOver' = TRUE
              /\ last' = [start EXCEPT !.threw = ~opts.onDragOver,
                                       !.observer = opts.onDragOver]
      /\ UNCHANGED <<lifecycle, mounted, opts, allowNewUpload,
                     removeDragOverClassTimeout, inputFiles, inflight,
                     uppyFiles, nDrops, nEntries>>
      /\ UNCHANGED wrapperVars

\* A drag-leave that schedules its timer without clearing the previous one.
TimersKeptByDragLeave_NotCleared == timers

\* The timers that stay pending when a drag-leave schedules its own.
TimersKeptByDragLeave == ClearTimeout(timers, removeDragOverClassTimeout)

HandleDragLeave ==
  /\ mounted
  /\ nEvents < MaxEvents
  /\ nEvents' = nEvents + 1
  /\ LET kept == TimersKeptByDragLeave
         id == FreshTimer(kept, removeDragOverClassTimeout)
     IN  /\ removeDragOverClassTimeout' = id
         /\ timers' = kept \cup {id}
  /\ last' = [Ran("handleDragLeave", ~opts.onDragLeave, opts.onDragLeave)
                 EXCEPT !.cancelled = removeDragOverClassTimeout \in timers]
  /\ UNCHANGED <<lifecycle, mounted, opts, allowNewUpload, isDraggingOver,
                 dropEffect, inputFiles, inflight, uppyFiles,
                 nDrops, nEntries>>
  /\ UNCHANGED wrapperVars

\* The callback given to setTimeout by handleDragLeave runs.
TimerFire(id) ==
  /\ id \in timers
  /\ timers' = timers \ {id}
  /\ isDraggingOver' = FALSE
  /\ last' = Ran("timeout", FALSE, FALSE)
  /\ UNCHANGED <<lifecycle, mounted, opts, allowNewUpload,
                 removeDragOverClassTimeout, dropEffect, inputFiles, inflight,
                 uppyFiles, nEvents, nDrops, nEntries>>
  /\ UNCHANGED wrapperVars

(* --------------------------- batch submitter --------------------------- *)

\* file.relativePath || null
RelativePathOrNull(path) ==
  IF path = Undefined \/ path = "" THEN Null ELSE path

\* The descriptor addFiles builds for one file.
Descriptor(file) ==
  [source |-> PluginId, name |-> file.name, type |-> file.type,
   data |-> file,
   meta |-> [relativePath |-> RelativePathOrNull(file.relativePath)]]

\* A map that hands the descriptors back in reverse order.
Descriptors_Reversed(files) ==
  [i \in 1..Len(files) |-> Descriptor(files[Len(files) + 1 - i])]

\* files.map(...)
Descriptors(files) == [i \in 1..Len(files) |-> Descriptor(files[i])]

\* addFiles without its try/catch.
AddFilesThrows_NotCaught(ok) == ~ok

\* Does a rejection by uppy.addFiles leave addFiles as an exception?  The
\* try/catch around the call catches it.
AddFilesThrows(ok) == FALSE

\* Calls of uppy.log(err) made by addFiles for a batch that was accepted (ok)
\* or rejected.
RejectionLogs(ok) == IF ok THEN 0 ELSE 1

\* What the orchestrator holds after a call of uppy.addFiles(batch) that it
\* accepted (ok) or rejected by throwing.
UppyAddFiles(store, batch, ok) == IF ok THEN store + Len(batch) ELSE store

\* this.addFiles(files) called by the handler run r: one call of
\* uppy.addFiles with the descriptors, a rejection goes to uppy.log.
AddFiles(r, files, ok) ==
  [r EXCEPT !.adds = @ + 1,
            !.batch = Descriptors(files),
            !.accepted = ok,
            !.rejectionLogs = @ + RejectionLogs(ok),
            !.threw = AddFilesThrows(ok)]

(* ---------------------------- picker channel --------------------------- *)

\* A handler that submits whatever list it gets.
Submits_Always(files) == TRUE

\* Does the handler submit this list?  files.length > 0
Submits(files) == Len(files) > 0

\* A handler that leaves the selection in the input.
InputAfterChange_Kept(sel) == sel

\* event.target.value = null empties the selection of the input.
InputAfterChange(sel) == << >>

\* A change notification with event.target.files = sel.  The platform fires
\* none when the user picks the selection the input already holds; an empty
\* list is what a cleared or cancelled input reports.
OnInputChange(sel, ok) ==
  /\ mounted
  /\ nEvents < MaxEvents
  /\ sel # inputFiles \/ sel = << >>
  /\ nEvents' = nEvents + 1
  /\ IF Submits(sel)
     THEN LET logged == [Ran("onInputChange", FALSE, FALSE)
                           EXCEPT !.selection = sel, !.infoLogs = 1]
              r == AddFiles(logged, sel, ok)
          IN  /\ last' = r
              /\ uppyFiles' = UppyAddFiles(uppyFiles, r.batch, ok)
              /\ inputFiles' = IF r.threw THEN sel ELSE InputAfterChange(sel)
     ELSE /\ last' = [Ran("onInputChange", FALSE, FALSE)
                         EXCEPT !.selection = sel]
          /\ inputFiles' = InputAfterChange(sel)
          /\ UNCHANGED uppyFiles
  /\ UNCHANGED <<lifecycle, mounted, opts, allowNewUpload, isDraggingOver,
                 removeDragOverClassTimeout, timers, dropEffect, inflight,
                 nDrops, nEntries>>
  /\ UNCHANGED wrapperVars

(* ----------------------------- drop channel ---------------------------- *)

\* The timers left pending by a drop.
TimersAfterDrop == ClearTimeout(timers, removeDragOverClassTimeout)

\* A drop that starts the traversal without resetting the hover state.
HoverAtTraversal_NotReset == isDraggingOver

\* isDraggingOver when handleDrop starts the traversal.
HoverAtTraversal == FALSE

\* handleDrop up to its await: the state reset, then getDroppedFiles starts
\* the traversal of the payload.
HandleDrop(types, payload) ==
  /\ mounted
  /\ nEvents < MaxEvents
  /\ nDrops < MaxDrops
  /\ nEntries + Len(payload) <= MaxEntries
  /\ nEvents' = nEvents + 1
  /\ nDrops' = nDrops + 1
  /\ nEntries' = nEntries + Len(payload)
  /\ timers' = TimersAfterDrop
  /\ isDraggingOver' = HoverAtTraversal
  /\ inflight' = Append(inflight,
       [NoDrop EXCEPT !.hasFiles = HasFiles(types),
                      !.allowed = allowNewUpload,
                      !.entries = payload,
                      !.hoverAtTraversal = HoverAtTraversal,
                      !.timerAtTraversal =
                         removeDragOverClassTimeout \in TimersAfterDrop])
  /\ last' = [Ran("handleDrop", FALSE, FALSE)
                 EXCEPT !.hasFiles = HasFiles(types),
                        !.cancelled = removeDragOverClassTimeout \in timers]
  /\ UNCHANGED <<lifecycle, mounted, opts, allowNewUpload,
                 removeDragOverClassTimeout, dropEffect, inputFiles,
                 uppyFiles>>
  /\ UNCHANGED wrapperVars

\* A logDropError that does not reach uppy.log.
LogDropError_Swallowed(n) == n

\* logDropError(error): uppy.log(error, 'error'); n such calls were made for
\* the drop before.
LogDropError(n) == n + 1

\* getDroppedFiles resolves the next entry of a pending drop: the file joins
\* the result, or the failure goes to logDropError and the entry is skipped.
ResolveEntry(i) ==
  LET d == inflight[i]
      ok == d.entries[d.pos + 1]
      file == DropFiles[d.pos + 1]
  IN  /\ d.pos < Len(d.entries)
      /\ inflight' =
           [inflight EXCEPT ![i] =
              [d EXCEPT !.pos = @ + 1,
                        !.files = IF ok THEN Append(@, file) ELSE @,
                        !.errs = IF ok THEN @ ELSE LogDropError(@)]]
      /\ last' = Ran("getDroppedFiles", FALSE, FALSE)
      /\ UNCHANGED <<lifecycle, mounted, opts, allowNewUpload, isDraggingOver,
                     removeDragOverClassTimeout, timers, dropEffect,
                     inputFiles, uppyFiles, nEvents, nDrops, nEntries>>
      /\ UNCHANGED wrapperVars

\* s without its i-th element.
RemoveAt(s, i) == [j \in 1..(Len(s) - 1) |-> IF j < i THEN s[j] ELSE s[j + 1]]

\* A continuation that does not wait for the traversal.
TraversalDone_NotAwaited(d) == TRUE

\* The promise of getDroppedFiles is settled: every entry has been visited.
TraversalDone(d) == d.pos = Len(d.entries)

\* The files resolved so far for the pending drops from the j-th on.
RECURSIVE ResolvedForAll(_)
ResolvedForAll(j) ==
  IF j > Len(inflight) THEN << >>
  ELSE inflight[j].files \o ResolvedForAll(j + 1)

\* A continuation that reads the files from an accumulator which the
\* pending drops share.
DropResult_Shared(i) == ResolvedForAll(1)

\* const files = await getDroppedFiles(...): the local of the continuation
\* holds what the traversal of its own drop resolved.
DropResult(i) == inflight[i].files

\* A continuation that resets the hover state after the traversal.
HoverAfterDropResume_Reset == FALSE

\* isDraggingOver when the continuation of handleDrop ends: lines 164-170
\* make no call of setPluginState.
HoverAfterDropResume == isDraggingOver

\* handleDrop after its await: submit what was resolved, call the observer.
HandleDropResume(i, ok) ==
  LET d == inflight[i]
      files == DropResult(i)
      start == [Ran("handleDrop.resume", FALSE, FALSE) EXCEPT !.drop = d]
  IN  /\ TraversalDone(d)
      /\ inflight' = RemoveAt(inflight, i)
      /\ isDraggingOver' = HoverAfterDropResume
      /\ IF Submits(files)
         THEN LET r == AddFiles([start EXCEPT !.infoLogs = 1], files, ok)
              IN  /\ last' = [r EXCEPT !.observer = ~r.threw /\ opts.onDrop]
                  /\ uppyFiles' = UppyAddFiles(uppyFiles, r.batch, ok)
         ELSE /\ last' = [start EXCEPT !.observer = opts.onDrop]
              /\ UNCHANGED uppyFiles
      /\ UNCHANGED <<lifecycle, mounted, opts, allowNewUpload,
                     removeDragOverClassTimeout, timers, dropEffect,
                     inputFiles, nEvents, nDrops, nEntries>>
      /\ UNCHANGED wrapperVars

Next ==
  \/ Install
  \/ Uninstall
  \/ SetAllowNewUpload
  \/ \E types \in TypeManifests : HandleDragOver(types)
  \/ HandleDragLeave
  \/ \E id \in timers : TimerFire(id)
  \/ \E sel \in Selections, ok \in BOOLEAN : OnInputChange(sel, ok)
  \/ \E types \in TypeManifests, payload \in Payloads :
       HandleDrop(types, payload)
  \/ \E i \in 1..Len(inflight) : ResolveEntry(i)
  \/ \E i \in 1..Len(inflight), ok \in BOOLEAN : HandleDropResume(i, ok)

Spec == Init /\ [][Next]_vars

(* ------------------------- Dashboard wrapper --------------------------- *)

\* id: 'react:Dashboard', the id of the plugin when the props give none.
DefaultPluginId == "react:Dashboard"

\* installPlugin's options: { id: 'react:Dashboard', ...this.props, target }
\* without uppy; an id among the props replaces the default one.
InstallOptions(p) ==
  [id |-> IF p.id = Undefined THEN DefaultPluginId ELSE p.id,
   theme |-> p.theme, className |-> p.className]

\* componentDidUpdate's options: { ...this.props, target } without uppy.
UpdateOptions(p) ==
  [id |-> p.id, theme |-> p.theme, className |-> p.className]

\* nonHtmlPropsHaveChanged(this, prevProps): a prop that is no attribute of
\* the container element differs from the previous render.
NonHtmlPropsHaveChanged(cur, prev) ==
  cur.uppy # prev.uppy \/ cur.id # prev.id \/ cur.theme # prev.theme

\* uppy.use throws when the instance already holds a plugin with the id.
UseThrows(store, u, id) == \E q \in store[u] : q.id = id

\* uppy.use(DashboardPlugin, options) on instance u: u holds a new plugin
\* object with the id of the options.
UppyUse(store, u, id, object) ==
  IF UseThrows(store, u, id) THEN store
  ELSE [store EXCEPT ![u] = @ \cup {[object |-> object, id |-> id]}]

\* uppy.getPlugin(id) on instance u: the plugin object, 0 for undefined.
GetPlugin(store, u, id) ==
  IF \E q \in store[u] : q.id = id
  THEN (CHOOSE q \in store[u] : q.id = id).object
  ELSE 0

\* uppy.removePlugin(instance) on instance u.
RemovePlugin(store, u, object) ==
  [store EXCEPT ![u] = {q \in @ : q.object # object}]

\* plugin.setOptions(options): the options given replace the ones held; an
\* absent id leaves the one held.
SetOptions(held, options) ==
  [options EXCEPT !.id = IF @ = Undefined THEN held.id ELSE @]

\* The Uppy instances that hold a plugin.
Holders(store) == {u \in Uppies : store[u] # {}}

\* installPlugin() with this.props = p on the instances as they are in
\* store: the instances, this.plugin and the plugin's options after it.
InstallPlugin(store, p) ==
  LET options == InstallOptions(p)
      threw == UseThrows(store, p.uppy, options.id)
      used == UppyUse(store, p.uppy, options.id, created + 1)
  IN  [plugins |-> used,
       plugin |-> IF threw THEN plugin
                  ELSE GetPlugin(used, p.uppy, options.id),
       options |-> IF threw THEN pluginOptions ELSE options,
       created |-> IF threw THEN created ELSE created + 1,
       threw |-> threw]

ComponentDidMount ==
  /\ phase = "constructed"
  /\ phase' = "mounted"
  /\ LET inst == InstallPlugin(plugins, props)
     IN  /\ plugins' = inst.plugins
         /\ plugin' = inst.plugin
         /\ pluginOptions' = inst.options
         /\ created' = inst.created
         /\ ranLifecycle' = [Lifecycle("componentDidMount")
                               EXCEPT !.installedOn = props.uppy,
                                      !.threw = inst.threw]
  /\ UNCHANGED <<props, nUpdates>>
  /\ UNCHANGED dragDropVars

\* An update that removes the plugin from the instance of the new props.
UninstallProps_Current(prevProps, thisProps) == thisProps

\* this.uninstallPlugin(prevProps): the props whose uppy componentDidUpdate
\* removes the plugin from.
UninstallProps(prevProps, thisProps) == prevProps

\* React rendered the wrapper again, with props next.
ComponentDidUpdate(next) ==
  /\ phase = "mounted"
  /\ nUpdates < MaxUpdates
  /\ nUpdates' = nUpdates + 1
  /\ props' = next
  /\ IF props.uppy # next.uppy
     THEN LET from == UninstallProps(props, next).uppy
              removed == RemovePlugin(plugins, from, plugin)
              inst == InstallPlugin(removed, next)
          IN  /\ plugins' = inst.plugins
              /\ plugin' = inst.plugin
              /\ pluginOptions' = inst.options
              /\ created' = inst.created
              /\ ranLifecycle' =
                   [Lifecycle("componentDidUpdate")
                      EXCEPT !.removedFrom = from,
                             !.installedOn = next.uppy,
                             !.holdersBetween = Cardinality(Holders(removed)),
                             !.threw = inst.threw]
     ELSE IF NonHtmlPropsHaveChanged(next, props)
     THEN /\ pluginOptions' = SetOptions(pluginOptions, UpdateOptions(next))
          /\ ranLifecycle' = [Lifecycle("componentDidUpdate")
                                EXCEPT !.setOptions = TRUE]
          /\ UNCHANGED <<plugins, plugin, created>>
     ELSE /\ ranLifecycle' = Lifecycle("componentDidUpdate")
          /\ UNCHANGED <<plugins, plugin, pluginOptions, created>>
  /\ UNCHANGED phase
  /\ UNCHANGED dragDropVars

ComponentWillUnmount ==
  /\ phase = "mounted"
  /\ phase' = "unmounted"
  /\ plugins' = RemovePlugin(plugins, props.uppy, plugin)
  /\ ranLifecycle' = [Lifecycle("componentWillUnmount")
                        EXCEPT !.removedFrom = props.uppy]
  /\ UNCHANGED <<props, plugin, pluginOptions, created, nUpdates>>
  /\ UNCHANGED dragDropVars

\* Options of a DragDrop plugin that is never installed.
NoOptions ==
  [target |-> FALSE, onDragOver |-> FALSE, onDragLeave |-> FALSE,
   onDrop |-> FALSE]

DashInit ==
  /\ DragDropConstructed
  /\ opts = NoOptions
  /\ \E p \in PropSets : WrapperConstructed(p)

DashNext ==
  \/ ComponentDidMount
  \/ \E next \in PropSets : ComponentDidUpdate(next)
  \/ ComponentWillUnmount

DashSpec == DashInit /\ [][DashNext]_vars


(* ------------------------------ claims --------------------------------- *)

\* The files of a payload that the traversal resolves, in payload order.
RECURSIVE ResolvedFrom(_, _)
ResolvedFrom(entries, j) ==
  IF j > Len(entries) THEN << >>
  ELSE IF entries[j] THEN <<DropFiles[j]>> \o ResolvedFrom(entries, j + 1)
       ELSE ResolvedFrom(entries, j + 1)

Resolved(entries) == ResolvedFrom(entries, 1)

\* The number of entries of a payload on which the traversal fails.
Failures(entries) == Cardinality({j \in 1..Len(entries) : ~entries[j]})

DropEnded == last.op = "handleDrop.resume"

\* C1: a drop that handleDrop handled while allowNewUpload was false never
\* leads to a call of uppy.addFiles, whatever its payload.
C1_NoSubmissionWhenUploadsDisallowed ==
  (DropEnded /\ ~last.drop.allowed) => last.adds = 0

\* C2: a drop whose dataTransfer.types lacks 'Files' leaves the event's
\* dropEffect at 'none' and never leads to a call of uppy.addFiles.
C2_NoSubmissionWithoutFilesType ==
  /\ (last.op = "handleDrop" /\ ~last.hasFiles) => dropEffect = "none"
  /\ (DropEnded /\ ~last.drop.hasFiles) => last.adds = 0

\* C3: debounce cancellation.  A qualifying drag-over leaves isDraggingOver
\* true with no debounce timer pending, a drag-leave does not change
\* isDraggingOver, and nothing but the expiry of a debounce timer or a drop
\* ends hovering: between a qualifying drag-over, a drag-leave and the next
\* qualifying drag-over that arrives before the timer fires, isDraggingOver
\* is never false.
C3_DebounceCancelled ==
  /\ (last.op = "handleDragOver" /\ last.hasFiles /\ allowNewUpload)
       => (isDraggingOver /\ timers = {})
  /\ (last.op = "handleDragLeave") => (isDraggingOver = last.hoverBefore)
  /\ (last.hoverBefore /\ last.op \notin {"timeout", "handleDrop"})
       => isDraggingOver

\* C3 witness: a qualifying drag-over arrived while hovering with the timer
\* of a drag-leave pending, and cancelled it.
C3_Witness ==
  /\ last.op = "handleDragOver" /\ last.hasFiles /\ allowNewUpload
  /\ last.hoverBefore /\ last.cancelled
  /\ isDraggingOver

\* C4: every drop sets isDraggingOver to false at once and cancels the
\* pending debounce timer before its traversal starts, hence before the
\* continuation that submits its files.
C4_DropResetsBeforeTraversal ==
  /\ last.op = "handleDrop"
       => (~isDraggingOver /\ removeDragOverClassTimeout \notin timers
           /\ last.adds = 0)
  /\ \A i \in 1..Len(inflight) :
       ~inflight[i].hoverAtTraversal /\ ~inflight[i].timerAtTraversal
  /\ DropEnded
       => (~last.drop.hoverAtTraversal /\ ~last.drop.timerAtTraversal)

\* C4 witness: a drop arrived while hovering with a debounce timer pending.
C4_Witness ==
  /\ last.op = "handleDrop" /\ last.hoverBefore /\ last.cancelled
  /\ Len(inflight) > 0

\* C5: a drop submits only in its continuation, after its whole traversal:
\* one call of uppy.addFiles that carries exactly the files the traversal
\* resolved, in order; no step of the traversal submits.
C5_SubmissionAfterTraversal ==
  /\ DropEnded
       => /\ last.drop.pos = Len(last.drop.entries)
          /\ last.adds <= 1
          /\ last.adds = 1
               => last.batch = Descriptors(Resolved(last.drop.entries))
          /\ last.adds = 0 => Resolved(last.drop.entries) = << >>
  /\ last.op \in {"handleDrop", "getDroppedFiles"} => last.adds = 0

\* C5 witness: a drop of two entries that both resolved has been submitted.
C5_Witness ==
  /\ DropEnded
  /\ last.drop.entries = <<TRUE, TRUE>>
  /\ last.adds = 1 /\ Len(last.batch) = 2

\* C7: when uppy.addFiles rejects a batch, the rejection goes to uppy.log
\* once, the handler does not throw and finishes (the observer of a drop is
\* called when registered, the picker input is cleared), uppy.addFiles is not
\* called again, and the orchestrator holds what it held before.
C7_RejectionLoggedNotPropagated ==
  (last.adds > 0 /\ ~last.accepted)
    => /\ last.rejectionLogs = 1
       /\ ~last.threw
       /\ last.adds = 1
       /\ uppyFiles = last.storeBefore
       /\ DropEnded => last.observer = opts.onDrop
       /\ last.op = "onInputChange" => inputFiles = << >>

\* C7 witness: a batch of a drop was rejected after an earlier batch had been
\* delivered, and the registered onDrop observer was called.
C7_Witness ==
  /\ DropEnded /\ last.adds = 1 /\ ~last.accepted
  /\ last.storeBefore > 0
  /\ last.observer

\* C8: a drop of n entries of which k fail to resolve logs k errors through
\* logDropError and, when n - k > 0, submits one batch of the n - k resolved
\* files; its continuation never throws.
C8_PartialFailure ==
  DropEnded
    => LET n == Len(last.drop.entries)
           k == Failures(last.drop.entries)
       IN  /\ last.drop.errs = k
           /\ n - k > 0 => (last.adds = 1 /\ Len(last.batch) = n - k)
           /\ ~last.threw

\* C8 witness: one of two dropped entries failed; one error was logged and a
\* batch of one descriptor submitted.
C8_Witness ==
  /\ DropEnded
  /\ Len(last.drop.entries) = 2 /\ Failures(last.drop.entries) = 1
  /\ last.drop.errs = 1 /\ last.adds = 1 /\ Len(last.batch) = 1

\* C6: a debounce timer that is pending when uninstall() is called is
\* cancelled: after uninstall no timer is pending and none fires.
C6_UninstallCancelsTimer ==
  lifecycle = "uninstalled" => (timers = {} /\ last.op # "timeout")

\* C9: after every change notification the selection of the input is
\* cleared, whether the list was empty, submitted or rejected; so the same
\* selection can be notified again, and every notification with files makes
\* its own call of uppy.addFiles.
C9_PickerReselection ==
  /\ inputFiles = << >>
  /\ (last.op = "onInputChange")
       => (last.adds = IF Len(last.selection) > 0 THEN 1 ELSE 0)

\* C9 witness: the second of two change notifications carrying the same
\* selection; both were submitted and accepted.
C9_Witness ==
  /\ last.op = "onInputChange" /\ nEvents = 2 /\ nDrops = 0
  /\ last.adds = 1 /\ last.accepted
  /\ last.storeBefore = Len(last.selection)
  /\ uppyFiles = 2 * Len(last.selection)

C11_DragOverAcceptance ==
  /\ last.op = "handleDragOver"
       => IF last.hasFiles /\ allowNewUpload
          THEN isDraggingOver /\ dropEffect = "copy"
          ELSE isDraggingOver = last.hoverBefore /\ dropEffect = "none"
  /\ dropEffect \in DropEffects
  /\ dropEffect # "move"

\* C11 witness: a drag-over that advertised 'Files' was rejected on an idle
\* widget because allowNewUpload was false.
C11_Witness ==
  /\ last.op = "handleDragOver" /\ last.hasFiles /\ ~allowNewUpload
  /\ ~last.hoverBefore /\ ~isDraggingOver /\ dropEffect = "none"

\* C12: a handler whose observer (opts.onDragOver, opts.onDragLeave,
\* opts.onDrop) is not registered still makes its state transition and ends
\* without throwing.
C12_ObserversOptional ==
  /\ (last.op = "handleDragOver" /\ ~opts.onDragOver
        /\ last.hasFiles /\ allowNewUpload)
       => (isDraggingOver /\ ~last.threw)
  /\ (last.op = "handleDragLeave" /\ ~opts.onDragLeave)
       => (removeDragOverClassTimeout \in timers /\ ~last.threw)
  /\ (DropEnded /\ ~opts.onDrop) => ~last.threw

\* C13: whenever a handler has called the registered observer of its event,
\* the isDraggingOver update of that transition has been applied: true after
\* a qualifying drag-over, false after a drag-leave of a hovering widget,
\* false from the start of the traversal of a drop.
C13_ObserverAfterUpdate ==
  /\ (last.op = "handleDragOver" /\ last.observer) => isDraggingOver
  /\ (last.op = "handleDragLeave" /\ last.observer /\ last.hoverBefore)
       => ~isDraggingOver
  /\ (DropEnded /\ last.observer) => ~last.drop.hoverAtTraversal

\* The relativePath a file was supplied with, null when it has none.
SuppliedRelativePath(file) ==
  IF file.relativePath = Undefined THEN Null ELSE file.relativePath

\* The file list the latest step handed to addFiles.
Submitted ==
  IF last.op = "onInputChange" THEN last.selection ELSE last.drop.files

\* C14: every descriptor submitted carries the relativePath its file was
\* supplied with, whatever string that is (the empty one included), and null
\* only for a file without relativePath.
C14_RelativePathPreserved ==
  last.adds > 0
    => \A i \in 1..Len(last.batch) :
         last.batch[i].meta.relativePath = SuppliedRelativePath(Submitted[i])

\* No file of the list comes from a directory: none carries a relativePath.
PlainFiles(files) ==
  \A i \in 1..Len(files) : files[i].relativePath = Undefined

\* C15: for a file list without directory-derived entries (a picker
\* selection or a drop of plain files) the batch passed to uppy.addFiles has
\* the length and the order of the list, descriptor i carries name, type and
\* data of file i, and every relativePath is null.
C15_PlainFilesInOrder ==
  (last.adds > 0 /\ PlainFiles(Submitted))
    => /\ Len(last.batch) = Len(Submitted)
       /\ \A i \in 1..Len(last.batch) :
            /\ last.batch[i].name = Submitted[i].name
            /\ last.batch[i].type = Submitted[i].type
            /\ last.batch[i].data = Submitted[i]
            /\ last.batch[i].meta.relativePath = Null

\* C15 witness: a picker selection of two different files was submitted.
C15_Witness ==
  /\ last.op = "onInputChange" /\ last.adds = 1
  /\ Len(last.selection) = 2 /\ last.selection[1] # last.selection[2]
  /\ PlainFiles(last.selection)

\* C16: hovering cannot get stuck.  Only the debounce timer resets a widget
\* that was left while hovering, so the reset must stay scheduled until it
\* runs: a drag-leave leaves its timer pending, and a non-qualifying
\* drag-over (no 'Files', or allowNewUpload false) that arrives while the
\* widget hovers with the timer pending leaves it pending.
C16_HoverNotStuck ==
  /\ last.op = "handleDragLeave" => removeDragOverClassTimeout \in timers
  /\ (last.op = "handleDragOver" /\ ~(last.hasFiles /\ allowNewUpload)
        /\ last.hoverBefore /\ last.cancelled)
       => removeDragOverClassTimeout \in timers

\* C17: at most one debounce timer is pending at any time, and it is the one
\* whose id the field removeDragOverClassTimeout holds: every handler that
\* schedules a timer has cleared the previous one, so a burst of drag-leaves
\* leaves one deferred reset.
C17_OneTimerPending ==
  /\ Cardinality(timers) <= 1
  /\ timers \subseteq {removeDragOverClassTimeout}

\* C17 witness: a drag-leave that followed another drag-leave whose timer was
\* still pending; one timer is pending after it.
C17_Witness ==
  /\ last.op = "handleDragLeave" /\ last.cancelled
  /\ nEvents >= 2
  /\ Cardinality(timers) = 1

\* What a call of uppy.addFiles made by the latest step added to the
\* orchestrator's files.
Delivered == IF last.adds > 0 /\ last.accepted THEN Len(last.batch) ELSE 0

\* C18: drops that overlap stay isolated.  Every pending drop holds exactly
\* the files resolved from its own entries so far, whatever other drops or
\* picker changes were handled meanwhile; the continuation of a drop makes
\* at most one call of uppy.addFiles, with exactly the files resolved for
\* that drop, and a picker change submits exactly its selection; the
\* orchestrator receives each batch once.
C18_OverlappingDropsIsolated ==
  /\ \A i \in 1..Len(inflight) :
       inflight[i].files =
         Resolved(SubSeq(inflight[i].entries, 1, inflight[i].pos))
  /\ DropEnded
       => /\ last.drop.files = Resolved(last.drop.entries)
          /\ last.adds <= 1
          /\ last.adds = 1 => last.batch = Descriptors(last.drop.files)
          /\ last.adds = 0 => last.drop.files = << >>
  /\ (last.op = "onInputChange" /\ last.adds > 0)
       => (last.adds = 1 /\ last.batch = Descriptors(last.selection))
  /\ uppyFiles = last.storeBefore + Delivered

\* C18 witness: the continuation of one drop submitted its file while
\* another drop, whose traversal had already resolved a file, was pending.
C18_Witness ==
  /\ DropEnded /\ last.adds = 1 /\ last.accepted
  /\ Len(inflight) = 1
  /\ inflight[1].files # << >>
  /\ Len(last.batch) = 1

\* C19: the continuation of a drop (end of the traversal, submission, onDrop
\* observer) changes neither isDraggingOver nor the debounce timer; a widget
\* that a qualifying drag-over set hovering while the traversal was pending
\* is still hovering when the drop has ended.
C19_ContinuationKeepsDragState ==
  DropEnded
    => /\ isDraggingOver = last.hoverBefore
       /\ (removeDragOverClassTimeout \in timers) = last.timerBefore

\* C19 witness: a drop with a file has ended on a widget that a drag-over
\* had set hovering after the drop reset it.
C19_Witness ==
  /\ DropEnded /\ last.drop.files # << >>
  /\ ~last.drop.hoverAtTraversal
  /\ last.hoverBefore /\ isDraggingOver

\* C20: while the wrapper is mounted, exactly one Uppy instance holds a
\* plugin of the wrapper: the instance of the current uppy prop holds
\* this.plugin and nothing else.  An update with a changed uppy prop removes
\* the plugin from the previous instance before it installs one on the new
\* instance, so no instance holds one in between.  After unmount no
\* instance holds a plugin.
C20_WrapperLifecycle ==
  /\ phase = "mounted"
       => /\ plugin # 0
          /\ Holders(plugins) = {props.uppy}
          /\ {q.object : q \in plugins[props.uppy]} = {plugin}
  /\ (ranLifecycle.op = "componentDidUpdate" /\ ranLifecycle.removedFrom # 0)
       => /\ ranLifecycle.removedFrom # ranLifecycle.installedOn
          /\ ranLifecycle.holdersBetween = 0
          /\ ~ranLifecycle.threw
  /\ phase = "unmounted" => Holders(plugins) = {}

\* C20 witness: the wrapper is mounted after its second update with a
\* changed uppy prop; the instance of the prop holds its third plugin object.
C20_Witness ==
  /\ phase = "mounted" /\ created = 3
  /\ ranLifecycle.op = "componentDidUpdate"
  /\ ranLifecycle.installedOn = props.uppy
  /\ plugins[props.uppy] # {}

====
